---- MODULE Spec2Model ----
(***************************************************************************)
(* Payment confirmation of the kiosk backend (src/unnamed/part_001): the   *)
(* in-memory confirmation cache, the two Mercado Pago notification         *)
(* endpoints that fill it, the hourly eviction timer and the status        *)
(* resolver GET /api/payment/status/:paymentId.                            *)
(*                                                                         *)
(* A request handler is an async function: it runs without interruption    *)
(* between two awaits, so each action below is one such run, from the      *)
(* completion of one awaited gateway call to the issue of the next.  The   *)
(* outcome of every gateway call is an input of the action.  The 300/500   *)
(* ms sleeps between delete attempts touch no state and are part of the    *)
(* attempt's action.                                                       *)
(*                                                                         *)
(* Amounts: the gateway reports transaction_amount in reais; the model     *)
(* holds it in thousandths of a real, so that Math.round(x * 100) is a     *)
(* real rounding.  Intent amounts and cache keys are in cents; the cache   *)
(* key `amount_${cents}` is modelled by the number of cents.               *)
(***************************************************************************)
EXTENDS Integers, Sequences, FiniteSets

\* ---------------------------------------------------------------- bounds
\* The clock stops here (two eviction periods and one millisecond).
MaxNow == 7200001
\* The longest result list the payment search answers with.
MaxResults == 2
\* The passes of the passive cleanup timer that are followed.
MaxPasses == 2

\* ------------------------------------------------------ program constants
\* const maxAttempts = 60: the status requests of one payment attempt.
MaxAttempts == 60
\* Date.now() - 3600000: the age above which a cache record is evicted.
OneHourMs == 3600000

\* -------------------------------------------------------------- the world
Pollers == {"r1", "r2"}
Channels == {"ipn", "webhook"}
IntentIds == {"i1", "i2"}
MockIds == {"mock_pay_1"}
PollIds == IntentIds \cup MockIds
PaymentIds == {"p1", "p2", "p3"}
NoPayment == "none"
Cents == {1550, 2000}
IntentStates == {"CREATED", "ON_DEVICE", "FINISHED", "PROCESSED", "CANCELED", "ERROR"}
TickSteps == {OneHourMs, OneHourMs + 1}

\* What GET /v1/payments/:id answers for each payment of the world:
\* transaction_amount in thousandths of a real, and the status.
TransactionAmount(p) ==
  CASE p = "p1" -> 15500
    [] p = "p2" -> 15504
    [] OTHER -> 20000

PaymentStatus(p) ==
  CASE p = "p1" -> "approved"
    [] p = "p2" -> "authorized"
    [] OTHER -> "pending"

\* Math.round(transaction_amount * 100), on an amount held in thousandths.
AmountInCents(m) == (m + 5) \div 10

\* ------------------------------------------------------------------ state
VARIABLES token, now, lastEviction, confirmedPayments, intents, poll, notif,
          cleanup, cancelReq, clearReq, createReq, client

\* The handlers that only keep the device queue clean: the passive cleanup
\* timer, DELETE /api/payment/cancel/:paymentId, POST /api/payment/clear-queue.
queueVars == <<cleanup, cancelReq, clearReq, createReq>>

vars == <<token, now, lastEviction, confirmedPayments, intents, poll, notif,
          queueVars, client>>

\* Map.get of a key that is not in the map.
NoRecord == [paymentId |-> NoPayment, amount |-> 0, status |-> "none", timestamp |-> 0]

\* The body of a gateway answer that is no intent: state, amount and payment
\* are undefined (undefined > 0 is false, like 0 > 0).
ErrorBody == [state |-> "UNDEFINED", amount |-> 0, payment |-> NoPayment]

NoResponse == [status |-> "none", paymentId |-> NoPayment]

\* A handler of GET /api/payment/status that has not started: its locals.
IdlePoll ==
  [pc |-> "idle", id |-> "none", dataIntent |-> ErrorBody, cached |-> NoRecord,
   searched |-> FALSE, payments |-> <<>>, found |-> NoPayment,
   branch |-> "none", attempt |-> 0,
   delResp |-> "none", listed |-> FALSE, events |-> <<>>, idx |-> 0,
   deletes |-> 0, res |-> NoResponse]

\* A notification endpoint that has received nothing yet. pc = "fetching"
\* while the payment lookup of its handler is in flight; sent is the status
\* the handler of the last request has sent on res, 0 as long as it has
\* sent none.
IdleNotif == [pc |-> "idle", id |-> NoPayment, sent |-> 0]

\* The passive cleanup timer before its first pass: passes counts the passes
\* begun, events is the listing the current pass was answered, idx the event
\* whose delete is awaited, issued the intents a delete was issued for in the
\* current pass, listFailed whether the listing of some pass has failed.
IdleCleanup ==
  [pc |-> "idle", passes |-> 0, listFailed |-> FALSE,
   events |-> <<>>, idx |-> 0, issued |-> {}]

\* No answer sent yet by the cancel or the clear-queue endpoint.
NoQueueAnswer == [code |-> 0, success |-> FALSE, cleared |-> 0]

\* DELETE /api/payment/cancel/:paymentId before its first request: delResp is
\* what the gateway answered to the DELETE of the request, res the answer of
\* the endpoint.
IdleCancel ==
  [pc |-> "idle", id |-> "none", delResp |-> "none", res |-> NoQueueAnswer]

\* POST /api/payment/clear-queue before its first request: events is the
\* listing, idx the event whose delete is awaited, answers what the gateway
\* answered to the deletes so far, cleared the counter of the handler.
IdleClear ==
  [pc |-> "idle", events |-> <<>>, idx |-> 0, answers |-> <<>>,
   cleared |-> 0, res |-> NoQueueAnswer]

\* No row in the orders table.
NoOrder == [paymentStatus |-> "none", paymentId |-> "none"]

\* The payment page before the customer pays. kind is the handler that runs,
\* id the payment the create call answered, attempts and approved the locals
\* of the poll loop, requests the status requests issued in this attempt,
\* lastStatus the status of the last answer, failure what made the attempt
\* fail (the message shown), orders the orders saved as paid, order the row
\* of the orders table written for this attempt.
IdleClient ==
  [pc |-> "idle", kind |-> "none", id |-> "none", attempts |-> 0,
   approved |-> FALSE, requests |-> 0, lastStatus |-> "none",
   failure |-> "none", orders |-> 0, order |-> NoOrder]

\* POST /api/payment/create before its first request: amount is the amount
\* of the body (thousandths of a real), events the listing of the preventive
\* cleanup, idx the event whose delete is awaited, issued the intents a
\* delete was issued for, caught whether the silent catch around the cleanup
\* was entered, res the answer.
NoCreateAnswer == [code |-> 0, id |-> "none", status |-> "none"]

IdleCreate ==
  [pc |-> "idle", amount |-> 0, events |-> <<>>, idx |-> 0, issued |-> {},
   caught |-> FALSE, res |-> NoCreateAnswer]

Init ==
  /\ token \in BOOLEAN
  /\ now = 0
  /\ lastEviction = 0
  /\ confirmedPayments = [c \in Cents |-> NoRecord]
  /\ \E a \in Cents :
       intents = [i \in IntentIds |->
                    [state |-> "CREATED", amount |-> IF i = "i1" THEN a ELSE 1550,
                     payment |-> NoPayment, present |-> TRUE]]
  /\ poll = [p \in Pollers |-> IdlePoll]
  /\ notif = [c \in Channels |-> IdleNotif]
  /\ cleanup = IdleCleanup
  /\ cancelReq = IdleCancel
  /\ clearReq = IdleClear
  /\ createReq = IdleCreate
  /\ client = IdleClient

\* ------------------------------------------------------ confirmation cache
\* A pending payment taken for a confirmed one.
IsApprovedOrPending(status) == status \in {"approved", "authorized", "pending"}

\* payment.status === "approved" || payment.status === "authorized"
IsApproved(status) == status \in {"approved", "authorized"}

\* The put keeping the paymentId of the record that is already there.
CachePutKeepingId(cache, p, t) ==
  [cache EXCEPT ![AmountInCents(TransactionAmount(p))] =
     [paymentId |-> IF @ # NoRecord THEN @.paymentId ELSE p,
      amount |-> TransactionAmount(p),
      status |-> PaymentStatus(p), timestamp |-> t]]

\* confirmedPayments.set(`amount_${Math.round(transaction_amount * 100)}`, {...})
\* for the payment the gateway answered with, at time t.
CachePut(cache, p, t) ==
  [cache EXCEPT ![AmountInCents(TransactionAmount(p))] =
     [paymentId |-> p, amount |-> TransactionAmount(p),
      status |-> PaymentStatus(p), timestamp |-> t]]

\* The get that applies the one-hour TTL itself.
CacheGetFresh(cache, key) ==
  IF key \in DOMAIN cache /\ cache[key].timestamp >= now - OneHourMs
  THEN cache[key] ELSE NoRecord

\* confirmedPayments.get(cacheKey); a record is truthy, undefined is not.
CacheGet(cache, key) == IF key \in DOMAIN cache THEN cache[key] ELSE NoRecord

\* The delete forgotten: the record stays after a hit.
CacheDeleteNothing(cache, key) == cache

\* confirmedPayments.delete(cacheKey)
CacheDelete(cache, key) == [cache EXCEPT ![key] = NoRecord]

\* <= for <: a record exactly one hour old is evicted too.
IsExpiredInclusive(rec, t) == rec.timestamp <= t - OneHourMs

\* value.timestamp < oneHourAgo, with oneHourAgo = Date.now() - 3600000.
IsExpired(rec, t) == rec.timestamp < t - OneHourMs

\* One pass of the eviction timer at time t.
EvictExpired(cache, t) ==
  [k \in DOMAIN cache |->
     IF cache[k] # NoRecord /\ IsExpired(cache[k], t) THEN NoRecord ELSE cache[k]]

\* setInterval(..., 3600000): a pass runs no earlier than one period after the
\* one before it (after the start of the process, for the first).
Evict ==
  /\ now >= lastEviction + OneHourMs
  /\ lastEviction' = now
  /\ confirmedPayments' = EvictExpired(confirmedPayments, now)
  /\ UNCHANGED <<client, queueVars, token, now, intents, poll, notif>>

\* Date.now() moves on.
Tick(d) ==
  /\ now + d <= MaxNow
  /\ now' = now + d
  /\ UNCHANGED <<client, queueVars, token, lastEviction, confirmedPayments, intents, poll, notif>>

\* ---------------------------------------------------- notification endpoints
Selectors(c) ==
  IF c = "ipn" THEN {"payment", "merchant_order"}
  ELSE {"payment.created", "payment.updated", "payment.deleted"}

\* The guard in front of the payment lookup: topic === "payment" && id for
\* the IPN; action payment.created / payment.updated and data.id for the
\* webhook.
Relevant(c, sel, id) ==
  IF c = "ipn" THEN sel = "payment" /\ id # NoPayment
  ELSE sel \in {"payment.created", "payment.updated"} /\ id # NoPayment

\* The answer held back until the payment lookup has answered.
SentBeforeLookupNothing(c, sel, id) == IF Relevant(c, sel, id) THEN 0 ELSE 200

\* res.status(200).send("OK") / res.status(200).json({...}): what a handler
\* has sent when its first synchronous run ends, ahead of the guard.
SentBeforeLookup(c, sel, id) == 200

\* POST /api/notifications/mercadopago and POST /api/webhooks/mercadopago up
\* to the first await: the 200 answer, then the issue of GET /v1/payments/:id.
Receive(c, sel, id) ==
  /\ notif[c].pc = "idle"
  /\ notif' = [notif EXCEPT ![c] =
       [pc |-> IF Relevant(c, sel, id) THEN "fetching" ELSE "idle",
        id |-> IF Relevant(c, sel, id) THEN id ELSE NoPayment,
        sent |-> SentBeforeLookup(c, sel, id)]]
  /\ UNCHANGED <<client, queueVars, token, lastEviction, now, confirmedPayments, intents, poll>>

\* The gateway's answer to GET /v1/payments/:id: the call throws, or answers
\* a body that is no payment (payment.status undefined), or the payment.
\* Without an access token the gateway answers no payment.
PaymentOutcomes == {"throw", "errorBody", "payment"}

\* The rest of a notification handler, after the payment lookup.
NotifyFetched(c, out) ==
  /\ notif[c].pc = "fetching"
  /\ out = "payment" => token
  /\ confirmedPayments' =
       IF out = "payment" /\ IsApproved(PaymentStatus(notif[c].id))
       THEN CachePut(confirmedPayments, notif[c].id, now)
       ELSE confirmedPayments
  /\ notif' = [notif EXCEPT ![c].pc = "idle", ![c].id = NoPayment]
  /\ UNCHANGED <<client, queueVars, token, lastEviction, now, intents, poll>>

\* ------------------------------------------------------------ the gateway
\* DELETE of a payment intent: ok removes it from the device queue, notfound
\* is 404, error is any other status, throw is a network failure.
DeleteOutcomes == {"ok", "notfound", "error", "throw"}

DeletePossible(i, out) ==
  /\ out = "ok" => i \in IntentIds /\ intents[i].present
  /\ out = "notfound" => ~(i \in IntentIds /\ intents[i].present)

GatewayDelete(ints, i, out) ==
  IF out = "ok" THEN [ints EXCEPT ![i].present = FALSE] ELSE ints

\* Only a 2xx answer taken for a success.
DeleteSucceededOkOnly(out) == out = "ok"

\* delResp.ok || delResp.status === 404
DeleteSucceeded(out) == out \in {"ok", "notfound"}

\* The payments whose amount in cents is the intent's.
PaymentsOfAmount(a) ==
  {p \in PaymentIds : AmountInCents(TransactionAmount(p)) = a}

\* The terminal and the customer move an intent on: it reaches the device,
\* is paid (with or without the payment attached to it) or is given up.
DeviceStep(i, s, pay) ==
  /\ intents[i].present
  /\ \/ intents[i].state = "CREATED" /\ s = "ON_DEVICE" /\ pay = NoPayment
     \/ intents[i].state = "ON_DEVICE" /\ s \in {"FINISHED", "PROCESSED"}
          /\ pay \in PaymentsOfAmount(intents[i].amount) \cup {NoPayment}
     \/ intents[i].state \in {"CREATED", "ON_DEVICE"} /\ s \in {"CANCELED", "ERROR"}
          /\ pay = NoPayment
  /\ intents' = [intents EXCEPT ![i].state = s, ![i].payment = pay]
  /\ UNCHANGED <<client, queueVars, token, lastEviction, now, confirmedPayments, poll, notif>>

\* The device's queue as GET .../devices/:id/payment-intents lists it.
QueueOf(ints) ==
  (IF ints["i1"].present THEN <<"i1">> ELSE <<>>) \o
  (IF ints["i2"].present THEN <<"i2">> ELSE <<>>)

\* -------------------------------------------- the passive cleanup timer
\* The listing with the state of each intent: ev.id and ev.state.
ListedQueue(ints) ==
  [k \in 1..Len(QueueOf(ints)) |->
     [id |-> QueueOf(ints)[k], state |-> ints[QueueOf(ints)[k]].state]]

\* PROCESSED intents cleaned as well.
ShouldCleanProcessed(state) ==
  state \in {"FINISHED", "PROCESSED", "CANCELED", "ERROR"}

\* shouldClean = state === "FINISHED" || state === "CANCELED" || state === "ERROR"
ShouldClean(state) == state \in {"FINISHED", "CANCELED", "ERROR"}

\* for (const ev of events) up to the next delete: the first event from
\* position from on that is to be cleaned, Len(events) + 1 when none is.
NextToClean(events, from) ==
  LET rest == {k \in from..Len(events) : ShouldClean(events[k].state)}
  IN IF rest = {} THEN Len(events) + 1
     ELSE CHOOSE k \in rest : \A j \in rest : k <= j

\* The loop goes on from position from: the delete of the next event to be
\* cleaned is issued, or the pass ends.
CleanupAdvance(j, from) ==
  LET k == NextToClean(j.events, from)
  IN IF k <= Len(j.events)
     THEN [j EXCEPT !.pc = "delete", !.idx = k, !.issued = @ \cup {j.events[k].id}]
     ELSE [j EXCEPT !.pc = "idle", !.idx = k]

\* setInterval(async () => {...}, 120000) fires: without credentials the pass
\* returns at once, with them the listing of the device queue is issued.
CleanupStart ==
  /\ cleanup.pc = "idle"
  /\ cleanup.passes < MaxPasses
  /\ cleanup' =
       IF token
       THEN [cleanup EXCEPT !.pc = "list", !.passes = @ + 1,
                            !.events = <<>>, !.idx = 0, !.issued = {}]
       ELSE [cleanup EXCEPT !.passes = @ + 1]
  /\ UNCHANGED <<client, token, lastEviction, now, confirmedPayments, intents, poll,
                 notif, cancelReq, clearReq, createReq>>

\* The listing answers: a throw or a status that is not ok ends the pass
\* silently.
CleanupListed(out) ==
  /\ cleanup.pc = "list"
  /\ cleanup' =
       IF out = "ok"
       THEN CleanupAdvance([cleanup EXCEPT !.events = ListedQueue(intents)], 1)
       ELSE [cleanup EXCEPT !.pc = "idle", !.listFailed = TRUE]
  /\ UNCHANGED <<client, token, lastEviction, now, confirmedPayments, intents, poll,
                 notif, cancelReq, clearReq, createReq>>

\* The delete of one event answers or throws (caught per event, the status
\* is not looked at): the loop goes on.
CleanupDeleted(out) ==
  /\ cleanup.pc = "delete"
  /\ DeletePossible(cleanup.events[cleanup.idx].id, out)
  /\ intents' = GatewayDelete(intents, cleanup.events[cleanup.idx].id, out)
  /\ cleanup' = CleanupAdvance(cleanup, cleanup.idx + 1)
  /\ UNCHANGED <<client, token, lastEviction, now, confirmedPayments, poll, notif,
                 cancelReq, clearReq, createReq>>

\* ------------------------------- DELETE /api/payment/cancel/:paymentId
\* Every cancellation reported as succeeded.
CancelAnswerAlwaysSuccess(out) == [code |-> 200, success |-> TRUE, cleared |-> 0]

\* res.json({success: true}) after ok or 404, res.status(400) after another
\* status, res.status(500) from the catch.
CancelAnswer(out) ==
  IF DeleteSucceeded(out) THEN [code |-> 200, success |-> TRUE, cleared |-> 0]
  ELSE IF out = "error" THEN [code |-> 400, success |-> FALSE, cleared |-> 0]
  ELSE [code |-> 500, success |-> FALSE, cleared |-> 0]

\* A cancel request arrives: without credentials it is answered
\* {success: true} at once, with them the DELETE of the intent is issued.
CancelRequested(id) ==
  /\ cancelReq.pc \in {"idle", "done"}
  /\ cancelReq' =
       IF token
       THEN [pc |-> "deleting", id |-> id, delResp |-> "none",
             res |-> NoQueueAnswer]
       ELSE [pc |-> "done", id |-> id, delResp |-> "none",
             res |-> [code |-> 200, success |-> TRUE, cleared |-> 0]]
  /\ UNCHANGED <<client, token, lastEviction, now, confirmedPayments, intents, poll,
                 notif, cleanup, clearReq, createReq>>

\* The gateway answers the DELETE, or the call throws.
CancelAnswered(out) ==
  /\ cancelReq.pc = "deleting"
  /\ DeletePossible(cancelReq.id, out)
  /\ intents' = GatewayDelete(intents, cancelReq.id, out)
  /\ cancelReq' = [cancelReq EXCEPT !.pc = "done", !.delResp = out,
                                    !.res = CancelAnswer(out)]
  /\ UNCHANGED <<client, token, lastEviction, now, confirmedPayments, poll, notif,
                 cleanup, clearReq, createReq>>

\* ------------------------------------------ POST /api/payment/clear-queue
\* A clear-queue request arrives: without credentials it is answered
\* {success: true, cleared: 0} at once, with them the listing is issued.
ClearRequested ==
  /\ clearReq.pc \in {"idle", "done"}
  /\ clearReq' =
       IF token
       THEN [IdleClear EXCEPT !.pc = "list"]
       ELSE [IdleClear EXCEPT !.pc = "done",
               !.res = [code |-> 200, success |-> TRUE, cleared |-> 0]]
  /\ UNCHANGED <<client, token, lastEviction, now, confirmedPayments, intents, poll,
                 notif, cleanup, cancelReq, createReq>>

\* The answer sent once the loop over the events is over.
ClearAnswer(cleared) == [code |-> 200, success |-> TRUE, cleared |-> cleared]

\* The listing answers: a status that is not ok is answered {success: false},
\* a throw 500, an empty listing cleared: 0.
ClearListed(out) ==
  /\ clearReq.pc = "list"
  /\ clearReq' =
       CASE out = "throw" ->
              [clearReq EXCEPT !.pc = "done",
                 !.res = [code |-> 500, success |-> FALSE, cleared |-> 0]]
         [] out = "notOk" ->
              [clearReq EXCEPT !.pc = "done",
                 !.res = [code |-> 200, success |-> FALSE, cleared |-> 0]]
         [] OTHER ->
              IF QueueOf(intents) = <<>>
              THEN [clearReq EXCEPT !.pc = "done", !.res = ClearAnswer(0)]
              ELSE [clearReq EXCEPT !.pc = "delete", !.idx = 1,
                                    !.events = QueueOf(intents)]
  /\ UNCHANGED <<client, token, lastEviction, now, confirmedPayments, intents, poll,
                 notif, cleanup, cancelReq, createReq>>

\* The delete of one event answers or throws: cleared++ after ok or 404; the
\* loop goes on, and answers after the last event.
ClearDeleted(out) ==
  /\ clearReq.pc = "delete"
  /\ DeletePossible(clearReq.events[clearReq.idx], out)
  /\ intents' = GatewayDelete(intents, clearReq.events[clearReq.idx], out)
  /\ clearReq' =
       LET n == clearReq.cleared + (IF DeleteSucceeded(out) THEN 1 ELSE 0)
           q == [clearReq EXCEPT !.cleared = n, !.answers = Append(@, out)]
       IN IF q.idx = Len(q.events)
          THEN [q EXCEPT !.pc = "done", !.res = ClearAnswer(n)]
          ELSE [q EXCEPT !.idx = @ + 1]
  /\ UNCHANGED <<client, token, lastEviction, now, confirmedPayments, poll, notif,
                 cleanup, cancelReq, createReq>>

\* ---------------------------------------------- POST /api/payment/create
\* The amounts a body asks for, in thousandths of a real.
RequestAmounts == {15500, 15504, 20000}

\* Only the intents the passive cleanup would clean deleted before a create.
PreventiveDeleteTerminal(state) == ShouldClean(state)

\* for (const ev of events) { await fetch(.../${iId}, {method: "DELETE"}) }:
\* the loop of the preventive cleanup looks at no state.
PreventiveDelete(state) == TRUE

\* The loop goes on from position from: the delete of the next event is
\* issued, or the cleanup is over and the create call is issued.
CreateAdvance(j, from) ==
  LET rest == {k \in from..Len(j.events) : PreventiveDelete(j.events[k].state)}
  IN IF rest = {} THEN [j EXCEPT !.pc = "create", !.idx = Len(j.events) + 1]
     ELSE LET k == CHOOSE n \in rest : \A m \in rest : n <= m
          IN [j EXCEPT !.pc = "delete", !.idx = k, !.issued = @ \cup {j.events[k].id}]

\* A create request arrives: without credentials it is answered a mock id at
\* once, with them the listing of the device queue is issued.
CreateRequested(m) ==
  /\ createReq.pc \in {"idle", "done"}
  /\ createReq' =
       IF token
       THEN [IdleCreate EXCEPT !.pc = "list", !.amount = m]
       ELSE [IdleCreate EXCEPT !.pc = "done", !.amount = m,
               !.res = [code |-> 200, id |-> "mock_pay_1", status |-> "pending"]]
  /\ UNCHANGED <<client, token, lastEviction, now, confirmedPayments, intents, poll,
                 notif, cleanup, cancelReq, clearReq>>

\* The listing answers: a throw is caught silently, a status that is not ok
\* or an empty listing skips the deletes; in every case the handler goes on.
CreateListed(out) ==
  /\ createReq.pc = "list"
  /\ createReq' =
       CASE out = "throw" -> [createReq EXCEPT !.pc = "create", !.caught = TRUE]
         [] out = "notOk" -> [createReq EXCEPT !.pc = "create"]
         [] OTHER -> CreateAdvance([createReq EXCEPT !.events = ListedQueue(intents)], 1)
  /\ UNCHANGED <<client, token, lastEviction, now, confirmedPayments, intents, poll,
                 notif, cleanup, cancelReq, clearReq>>

\* The delete of one event answers (its status is not looked at) and the
\* loop goes on, or the call throws and the silent catch ends the cleanup.
CreateDeleted(out) ==
  /\ createReq.pc = "delete"
  /\ DeletePossible(createReq.events[createReq.idx].id, out)
  /\ intents' = GatewayDelete(intents, createReq.events[createReq.idx].id, out)
  /\ createReq' =
       IF out = "throw" THEN [createReq EXCEPT !.pc = "create", !.caught = TRUE]
       ELSE CreateAdvance(createReq, createReq.idx + 1)
  /\ UNCHANGED <<client, token, lastEviction, now, confirmedPayments, poll, notif,
                 cleanup, cancelReq, clearReq>>

\* What POST .../payment-intents ends with: the call or response.json()
\* throws, the status is not ok, or the new intent.
CreateOutcomes == {"throw", "notOk", "ok"}

\* The create call ends: the new intent, of Math.round(amount * 100) cents,
\* is on the device and its id is answered with status "open"; any failure
\* is answered 500. The gateway gives the new intent an id that no intent
\* of the device bears.
CreateAnswered(out, id) ==
  /\ createReq.pc = "create"
  /\ out = "ok" => ~intents[id].present
  /\ intents' =
       IF out = "ok"
       THEN [intents EXCEPT ![id] =
               [state |-> "CREATED", amount |-> AmountInCents(createReq.amount),
                payment |-> NoPayment, present |-> TRUE]]
       ELSE intents
  /\ createReq' =
       [createReq EXCEPT !.pc = "done",
          !.res = IF out = "ok" THEN [code |-> 200, id |-> id, status |-> "open"]
                  ELSE [code |-> 500, id |-> "none", status |-> "none"]]
  /\ UNCHANGED <<client, token, lastEviction, now, confirmedPayments, poll, notif,
                 cleanup, cancelReq, clearReq>>

\* -------------------------------------- GET /api/payment/status/:paymentId
\* paymentId.startsWith("mock_pay")
IsMock(id) == id \in MockIds

\* The ladder with the CANCELED/ERROR state looked at first.
StrategyCanceledFirst(d, rec) ==
  IF d.state \in {"CANCELED", "ERROR"} THEN "canceled"
  ELSE IF d.amount > 0 /\ rec # NoRecord THEN "cache"
  ELSE IF d.payment # NoPayment THEN "direct"
  ELSE IF d.state \in {"FINISHED", "PROCESSED"} THEN "finished"
  ELSE IF d.amount > 0 THEN "search"
  ELSE "pending"

\* The ladder with the embedded payment id looked at before the cache.
StrategyDirectFirst(d, rec) ==
  IF d.payment # NoPayment THEN "direct"
  ELSE IF d.amount > 0 /\ rec # NoRecord THEN "cache"
  ELSE IF d.state \in {"FINISHED", "PROCESSED"} THEN "finished"
  ELSE IF d.amount > 0 THEN "search"
  ELSE IF d.state \in {"CANCELED", "ERROR"} THEN "canceled"
  ELSE "pending"

\* The ladder with the amount search tried before the FINISHED/PROCESSED state.
StrategySearchBeforeFinished(d, rec) ==
  IF d.amount > 0 /\ rec # NoRecord THEN "cache"
  ELSE IF d.payment # NoPayment THEN "direct"
  ELSE IF d.amount > 0 THEN "search"
  ELSE IF d.state \in {"FINISHED", "PROCESSED"} THEN "finished"
  ELSE IF d.state \in {"CANCELED", "ERROR"} THEN "canceled"
  ELSE "pending"

\* The ladder taking ON_DEVICE for a finished state.
StrategyOnDeviceFinished(d, rec) ==
  IF d.amount > 0 /\ rec # NoRecord THEN "cache"
  ELSE IF d.payment # NoPayment THEN "direct"
  ELSE IF d.state \in {"FINISHED", "PROCESSED", "ON_DEVICE"} THEN "finished"
  ELSE IF d.amount > 0 THEN "search"
  ELSE IF d.state \in {"CANCELED", "ERROR"} THEN "canceled"
  ELSE "pending"

\* The resolver's ladder once the intent detail d is known and rec is what
\* confirmedPayments.get answered for its amount: the first strategy that
\* matches.  "search" is the amount search, whose result decides further.
Strategy(d, rec) ==
  IF d.amount > 0 /\ rec # NoRecord THEN "cache"
  ELSE IF d.payment # NoPayment THEN "direct"
  ELSE IF d.state \in {"FINISHED", "PROCESSED"} THEN "finished"
  ELSE IF d.amount > 0 THEN "search"
  ELSE IF d.state \in {"CANCELED", "ERROR"} THEN "canceled"
  ELSE "pending"

\* The ERROR state forgotten: only CANCELED is answered as canceled.
AfterSearchCanceledOnly(d) ==
  IF d.state = "CANCELED" THEN "canceled" ELSE "pending"

\* What is left of the ladder when the search found no payment.
AfterSearch(d) ==
  IF d.state \in {"CANCELED", "ERROR"} THEN "canceled" ELSE "pending"

\* payments.find(p => statusApproved && amountMatch): the first payment of
\* the search result that is approved or authorized and of the intent's
\* amount in cents; NoPayment when there is none.
Matches(q, amount) ==
  IsApproved(PaymentStatus(q)) /\ AmountInCents(TransactionAmount(q)) = amount

\* The last match of the search result instead of the first.
FindLastPayment(payments, amount) ==
  LET hits == {k \in 1..Len(payments) : Matches(payments[k], amount)}
  IN IF hits = {} THEN NoPayment
     ELSE payments[CHOOSE k \in hits : \A j \in hits : k >= j]

FindPayment(payments, amount) ==
  LET hits == {k \in 1..Len(payments) : Matches(payments[k], amount)}
  IN IF hits = {} THEN NoPayment
     ELSE payments[CHOOSE k \in hits : \A j \in hits : k <= j]

\* for (let attempt = 1; attempt <= 3; ...) of the direct-id and search
\* branches, attempt <= 5 of the FINISHED/PROCESSED branch.
MaxDeleteAttempts(branch) == IF branch = "finished" THEN 5 ELSE 3

\* Whether the queue-clearing loop wraps each delete in its own try/catch:
\* the FINISHED/PROCESSED and search branches do, the direct-id branch does
\* not (a throw there leaves the loop for the catch around the listing).
ClearCatchesEach(branch) == branch # "direct"

\* The approved answer of a cache hit sent without the cached paymentId.
ApprovedAnswerWithoutCached(q) ==
  [status |-> "approved",
   paymentId |-> CASE q.branch = "direct" -> q.dataIntent.payment
                   [] q.branch = "search" -> q.found
                   [] OTHER -> NoPayment]

\* The paymentId of the approved answer of each branch.
ApprovedAnswer(q) ==
  [status |-> "approved",
   paymentId |-> CASE q.branch = "cache" -> q.cached.paymentId
                   [] q.branch = "direct" -> q.dataIntent.payment
                   [] q.branch = "search" -> q.found
                   [] OTHER -> NoPayment]

Answer(q, r) == [q EXCEPT !.pc = "done", !.res = r]

\* The catch answering 500 instead of pending.
ErrorAnswer == [status |-> "error", paymentId |-> NoPayment]

\* The catch around the whole resolver, and its last line: the pending answer.
PendingAnswer == [status |-> "pending", paymentId |-> NoPayment]

\* The next step of a handler that has just chosen branch b.
Enter(q, b) ==
  CASE b = "cache" -> [q EXCEPT !.branch = b, !.pc = "hitDelete"]
    [] b \in {"direct", "finished"} ->
         [q EXCEPT !.branch = b, !.pc = "retryDelete", !.attempt = 1]
    [] b = "search" -> [q EXCEPT !.branch = b, !.pc = "search"]
    [] b = "canceled" -> [q EXCEPT !.branch = b, !.pc = "cancelDelete"]
    [] OTHER -> Answer([q EXCEPT !.branch = "pending"],
                       PendingAnswer)

\* A request arrives: the mock and the token guards, then the intent fetch
\* is issued.
Start(p, id) ==
  /\ poll[p].pc \in {"idle", "done"}
  /\ poll' = [poll EXCEPT ![p] =
       LET q == [IdlePoll EXCEPT !.id = id]
       IN IF IsMock(id)
          THEN Answer([q EXCEPT !.branch = "mock"],
                      [status |-> "approved", paymentId |-> NoPayment])
          ELSE IF ~token
          THEN Answer([q EXCEPT !.branch = "noToken"],
                      [status |-> "error", paymentId |-> NoPayment])
          ELSE [q EXCEPT !.pc = "fetchIntent"]]
  /\ UNCHANGED <<client, queueVars, token, lastEviction, now, confirmedPayments, intents, notif>>

\* The gateway's answer to GET .../payment-intents/:id: the call throws, or
\* answers a body that is no intent, or the intent's detail.
IntentOutcomes == {"throw", "errorBody", "detail"}

\* The intent fetch completes: the cache check (get and delete with no await
\* between them) and the choice of the strategy.
IntentFetched(p, out) ==
  /\ poll[p].pc = "fetchIntent"
  /\ out = "detail" => intents[poll[p].id].present
  /\ IF out = "throw"
     THEN /\ poll' = [poll EXCEPT ![p] =
                Answer([@ EXCEPT !.branch = "fetchFailed"],
                       PendingAnswer)]
          /\ UNCHANGED confirmedPayments
     ELSE LET i == intents[poll[p].id]
              d == IF out = "detail"
                   THEN [state |-> i.state, amount |-> i.amount, payment |-> i.payment]
                   ELSE ErrorBody
              rec == CacheGet(confirmedPayments, d.amount)
              b == Strategy(d, rec)
          IN /\ poll' = [poll EXCEPT ![p] =
                   Enter([@ EXCEPT !.dataIntent = d,
                                   !.cached = rec], b)]
             /\ confirmedPayments' =
                  IF b = "cache" THEN CacheDelete(confirmedPayments, d.amount)
                  ELSE confirmedPayments
  /\ UNCHANGED <<client, queueVars, token, lastEviction, now, intents, notif>>

\* Cache hit: the single delete of the intent, whatever its outcome, then
\* the approved answer with the cached paymentId.
HitDeleted(p, out) ==
  /\ poll[p].pc = "hitDelete"
  /\ DeletePossible(poll[p].id, out)
  /\ intents' = GatewayDelete(intents, poll[p].id, out)
  /\ poll' = [poll EXCEPT ![p] =
       LET q == [@ EXCEPT !.deletes = @ + 1] IN Answer(q, ApprovedAnswer(q))]
  /\ UNCHANGED <<client, queueVars, token, lastEviction, now, confirmedPayments, notif>>

\* One attempt of the forced delete of the resolved intent: delResp is what
\* the gateway answered to it (a local of the loop, gone once the listing
\* that follows the loop has answered).
DeleteAttempted(p, out) ==
  /\ poll[p].pc = "retryDelete"
  /\ DeletePossible(poll[p].id, out)
  /\ intents' = GatewayDelete(intents, poll[p].id, out)
  /\ poll' = [poll EXCEPT ![p] =
       LET q == [@ EXCEPT !.deletes = @ + 1, !.delResp = out]
       IN IF DeleteSucceeded(out) \/ q.attempt >= MaxDeleteAttempts(q.branch)
          THEN [q EXCEPT !.pc = "list"]
          ELSE [q EXCEPT !.attempt = @ + 1]]
  /\ UNCHANGED <<client, queueVars, token, lastEviction, now, confirmedPayments, notif>>

\* The answer to the listing of the device queue.
ListOutcomes == {"throw", "notOk", "ok"}

\* The listing of the device queue answers: listed records that the handler
\* asked for it, events what it got, idx the event whose delete is next.
QueueListed(p, out) ==
  /\ poll[p].pc = "list"
  /\ poll' = [poll EXCEPT ![p] =
       LET q == [@ EXCEPT !.listed = TRUE, !.delResp = "none"]
       IN IF out = "ok" /\ QueueOf(intents) # <<>>
          THEN [q EXCEPT !.pc = "clear", !.events = QueueOf(intents), !.idx = 1]
          ELSE Answer(q, ApprovedAnswer(q))]
  /\ UNCHANGED <<client, queueVars, token, lastEviction, now, confirmedPayments, intents, notif>>

\* The delete of one listed intent.
QueueDeleted(p, out) ==
  /\ poll[p].pc = "clear"
  /\ DeletePossible(poll[p].events[poll[p].idx], out)
  /\ intents' = GatewayDelete(intents, poll[p].events[poll[p].idx], out)
  /\ poll' = [poll EXCEPT ![p] =
       IF (out = "throw" /\ ~ClearCatchesEach(@.branch)) \/ @.idx = Len(@.events)
       THEN Answer(@, ApprovedAnswer(@))
       ELSE [@ EXCEPT !.idx = @ + 1]]
  /\ UNCHANGED <<client, queueVars, token, lastEviction, now, confirmedPayments, notif>>

\* What GET /v1/payments/search may answer with: the payments of the world
\* in any order, at most MaxResults of them.
SearchResults ==
  {s \in UNION {[1..n -> PaymentIds] : n \in 0..MaxResults} :
     \A j, k \in 1..Len(s) : j # k => s[j] # s[k]}

\* The payment search completes.
Searched(p, out, results) ==
  /\ poll[p].pc = "search"
  /\ poll' = [poll EXCEPT ![p] =
       IF out = "throw"
       THEN Answer([@ EXCEPT !.branch = "searchFailed"],
                   PendingAnswer)
       ELSE LET f == FindPayment(results, @.dataIntent.amount)
                q == [@ EXCEPT !.searched = TRUE, !.payments = results, !.found = f]
            IN IF f # NoPayment
               THEN [q EXCEPT !.pc = "retryDelete", !.attempt = 1]
               ELSE Enter(q, AfterSearch(q.dataIntent))]
  /\ UNCHANGED <<client, queueVars, token, lastEviction, now, confirmedPayments, intents, notif>>

\* CANCELED / ERROR: the delete of the intent, then the canceled answer.
CancelDeleted(p, out) ==
  /\ poll[p].pc = "cancelDelete"
  /\ DeletePossible(poll[p].id, out)
  /\ intents' = GatewayDelete(intents, poll[p].id, out)
  /\ poll' = [poll EXCEPT ![p] =
       Answer([@ EXCEPT !.deletes = @ + 1],
              [status |-> "canceled", paymentId |-> NoPayment])]
  /\ UNCHANGED <<client, queueVars, token, lastEviction, now, confirmedPayments, notif>>

\* -------------------------------------------- the payment page (client)
PaymentKinds == {"card", "pix"}

\* What a status request may end with: a body with one of the statuses the
\* server answers, an error answer whose body has no status, a body that
\* does not parse, or a network error.
StatusOutcomes == {"approved", "pending", "canceled", "error", "unparsable", "throw"}

\* statusData.status === "approved" || statusData.status === "FINISHED" for
\* the card, statusData.status === "approved" for PIX.
ShowsApproved(kind, status) ==
  status = "approved" \/ (kind = "card" /\ status = "FINISHED")

\* handlePayment: setStatus("processing") and the create call is issued.
\* The page takes a payment when idle or showing an error (which it leaves
\* after four seconds).
Pay(kind) ==
  /\ client.pc \in {"idle", "error"}
  /\ client' = [IdleClient EXCEPT !.pc = "creating", !.kind = kind]
  /\ UNCHANGED <<token, lastEviction, now, confirmedPayments, intents, poll,
                 notif, queueVars>>

\* The create call ends: a throw, an answer that is not ok or has no id, or
\* the id of the payment; then the loop is entered and its first wait begins.
Created(out, id) ==
  /\ client.pc = "creating"
  /\ client' =
       IF out = "ok"
       THEN [client EXCEPT !.pc = "waiting", !.id = id]
       ELSE [client EXCEPT !.pc = "error", !.failure = "create"]
  /\ UNCHANGED <<token, lastEviction, now, confirmedPayments, intents, poll,
                 notif, queueVars>>

\* The three seconds are over: the status request is issued.
Waited ==
  /\ client.pc = "waiting"
  /\ client' = [client EXCEPT !.pc = "polling", !.requests = @ + 1]
  /\ UNCHANGED <<token, lastEviction, now, confirmedPayments, intents, poll,
                 notif, queueVars>>

\* The loop after one answer: attempts++, then while (attempts < maxAttempts
\* && !approved) goes round again, or the loop is left: for the timeout
\* error when nothing was approved, for the clearing of the queue (card) or
\* the saving of the order (PIX) otherwise.
AfterAnswer(c, status) ==
  LET ok == ShowsApproved(c.kind, status)
      q == [c EXCEPT !.attempts = @ + 1, !.approved = ok, !.lastStatus = status]
  IN IF q.attempts < MaxAttempts /\ ~ok THEN [q EXCEPT !.pc = "waiting"]
     ELSE IF ~ok THEN [q EXCEPT !.pc = "error", !.failure = "timeout"]
     ELSE [q EXCEPT !.pc = IF q.kind = "card" THEN "clearing" ELSE "saving"]

\* The status request ends. fetch or statusResp.json() throwing is caught by
\* the catch around the whole handler, which ends the attempt; an answer
\* without a status is an attempt like another.
StatusAnswered(out) ==
  /\ client.pc = "polling"
  /\ client' =
       IF out \in {"throw", "unparsable"}
       THEN [client EXCEPT !.pc = "error", !.failure = "request"]
       ELSE AfterAnswer(client, IF out = "error" THEN "none" ELSE out)
  /\ UNCHANGED <<token, lastEviction, now, confirmedPayments, intents, poll,
                 notif, queueVars>>

\* await clearPaymentQueue(): a result without success is only a warning, a
\* throw ends the attempt.
QueueCleared(out) ==
  /\ client.pc = "clearing"
  /\ client' =
       IF out = "throw"
       THEN [client EXCEPT !.pc = "error", !.failure = "clear"]
       ELSE [client EXCEPT !.pc = "saving"]
  /\ UNCHANGED <<token, lastEviction, now, confirmedPayments, intents, poll,
                 notif, queueVars>>

\* The row inserted as pending.
NewOrderPending(paymentId) == [paymentStatus |-> "pending", paymentId |-> paymentId]

\* POST /api/orders: newOrder, with paymentStatus "paid" whatever the body
\* says and the paymentId of the body.
NewOrder(paymentId) == [paymentStatus |-> "paid", paymentId |-> paymentId]

\* saveOrder: POST /api/orders with status "paid" ends.
OrderSaved(out) ==
  /\ client.pc = "saving"
  /\ client' =
       IF out = "ok"
       THEN [client EXCEPT !.pc = "success", !.orders = @ + 1,
                           !.order = NewOrder(client.id)]
       ELSE [client EXCEPT !.pc = "error", !.failure = "save"]
  /\ UNCHANGED <<token, lastEviction, now, confirmedPayments, intents, poll,
                 notif, queueVars>>

\* ------------------------------------------------------ the specifications
\* What each client polls: r1 its intent i1 (or a mock id, as handed out by
\* POST /api/payment/create without credentials), r2 its intent i2.
PollTargets(p) == IF p = "r1" THEN {"i1"} \cup MockIds ELSE {"i2"}

\* The notification endpoints, for the channels C.
Notifications(C) ==
  \/ \E c \in C, id \in PaymentIds \cup {NoPayment} :
       \E sel \in Selectors(c) : Receive(c, sel, id)
  \/ \E c \in C, out \in PaymentOutcomes : NotifyFetched(c, out)

\* The status resolver, for the handlers P and the search answers R: the
\* ladder up to the approved, pending or canceled decision ...
Ladder(P, R) ==
  \/ \E p \in P : \E id \in PollTargets(p) : Start(p, id)
  \/ \E p \in P, out \in IntentOutcomes : IntentFetched(p, out)
  \/ \E p \in P, out \in DeleteOutcomes : HitDeleted(p, out)
  \/ \E p \in P, out \in {"throw", "ok"}, results \in R : Searched(p, out, results)

\* ... the forced delete and the clearing of the device queue ...
Sweep(P) ==
  \/ \E p \in P, out \in DeleteOutcomes : DeleteAttempted(p, out)
  \/ \E p \in P, out \in ListOutcomes : QueueListed(p, out)
  \/ \E p \in P, out \in DeleteOutcomes : QueueDeleted(p, out)

\* ... and the delete of a canceled intent.
Cancel(P) == \E p \in P, out \in DeleteOutcomes : CancelDeleted(p, out)

\* The device moves the intents I on.
Device(I) ==
  \E i \in I, s \in IntentStates, pay \in PaymentIds \cup {NoPayment} :
    DeviceStep(i, s, pay)

\* One client polling its intent through every state of the intent and every
\* outcome of every gateway call, while notifications arrive on both channels.
Next ==
  \/ Notifications(Channels)
  \/ Device({"i1"})
  \/ Ladder({"r1"}, SearchResults)
  \/ Sweep({"r1"})
  \/ Cancel({"r1"})

Spec == Init /\ [][Next]_vars

\* Two clients polling at once, their intents untouched by the customers,
\* while notifications arrive on both channels.
NextRace ==
  \/ Notifications(Channels)
  \/ Ladder(Pollers, {s \in SearchResults : Len(s) <= 1})
  \/ Sweep(Pollers)

SpecRace == Init /\ [][NextRace]_vars

\* The eviction timer and the clock, with one client and one channel.
NextClock ==
  \/ Evict
  \/ \E d \in TickSteps : Tick(d)
  \/ Notifications({"ipn"})
  \/ Ladder({"r1"}, SearchResults)
  \/ Sweep({"r1"})

SpecClock == Init /\ [][NextClock]_vars

\* The passive cleanup timer.
PassiveCleanup ==
  \/ CleanupStart
  \/ \E out \in ListOutcomes : CleanupListed(out)
  \/ \E out \in DeleteOutcomes : CleanupDeleted(out)

\* The cancel endpoint, for the intents I.
CancelEndpoint(I) ==
  \/ \E id \in I : CancelRequested(id)
  \/ \E out \in DeleteOutcomes : CancelAnswered(out)

\* The clear-queue endpoint.
ClearEndpoint ==
  \/ ClearRequested
  \/ \E out \in ListOutcomes : ClearListed(out)
  \/ \E out \in DeleteOutcomes : ClearDeleted(out)

\* The passive cleanup timer at work while the customers move both intents
\* on and cancel requests remove them.
NextCleanup ==
  \/ PassiveCleanup
  \/ Device(IntentIds)
  \/ CancelEndpoint(IntentIds)

SpecCleanup == Init /\ [][NextCleanup]_vars

\* Every deleter of intent i1 at once: one client polling it, the cancel and
\* the clear-queue endpoints, while the customer moves it on; the payment
\* search finds nothing.
NextQueue ==
  \/ \E id \in PollTargets("r1") : Start("r1", id)
  \/ \E out \in IntentOutcomes : IntentFetched("r1", out)
  \/ \E out \in {"throw", "ok"} : Searched("r1", out, <<>>)
  \/ Sweep({"r1"})
  \/ Cancel({"r1"})
  \/ Device({"i1"})
  \/ CancelEndpoint({"i1"})
  \/ ClearEndpoint

SpecQueue == Init /\ [][NextQueue]_vars

\* The payment page, paying for the payments I.
PaymentPage(I) ==
  \/ \E kind \in PaymentKinds : Pay(kind)
  \/ \E out \in {"throw", "error", "ok"}, id \in I : Created(out, id)
  \/ Waited
  \/ \E out \in StatusOutcomes : StatusAnswered(out)
  \/ \E out \in {"throw", "notOk", "ok"} : QueueCleared(out)
  \/ \E out \in {"throw", "notOk", "ok"} : OrderSaved(out)

\* One customer at the payment page while cancel requests for the payment
\* the page is polling arrive at the server.
NextClient ==
  \/ PaymentPage({"i1"})
  \/ (client.pc \in {"waiting", "polling"} /\ CancelRequested(client.id))
  \/ \E out \in DeleteOutcomes : CancelAnswered(out)

SpecClient == Init /\ [][NextClient]_vars

\* One client polling intent i1 for as long as it takes, while the customer
\* pays at the device, a webhook may arrive and the passive cleanup timer
\* runs; the payment search finds nothing.
PollI1 ==
  \/ Start("r1", "i1")
  \/ \E out \in IntentOutcomes : IntentFetched("r1", out)
  \/ \E out \in DeleteOutcomes : HitDeleted("r1", out)
  \/ \E out \in {"throw", "ok"} : Searched("r1", out, <<>>)
  \/ Sweep({"r1"})
  \/ Cancel({"r1"})

NextLive ==
  \/ PollI1
  \/ Notifications({"webhook"})
  \/ Device({"i1"})
  \/ PassiveCleanup

\* The client goes on polling and every gateway call it makes ends; the
\* gateway does not fail the intent fetch for ever: as long as the intent is
\* there, a fetch is answered its detail again and again.
SpecLive ==
  /\ Init
  /\ [][NextLive]_vars
  /\ WF_vars(PollI1)
  /\ SF_vars(IntentFetched("r1", "detail"))

\* One customer at the payment page and at the device, with the passive
\* cleanup timer running.
NextAbandon ==
  \/ PaymentPage({"i1"})
  \/ Device({"i1"})
  \/ PassiveCleanup

SpecAbandon == Init /\ [][NextAbandon]_vars

\* POST /api/payment/create, the new intents taking the ids I.
CreateEndpoint(I) ==
  \/ \E m \in RequestAmounts : CreateRequested(m)
  \/ \E out \in ListOutcomes : CreateListed(out)
  \/ \E out \in DeleteOutcomes : CreateDeleted(out)
  \/ \E out \in CreateOutcomes, id \in I : CreateAnswered(out, id)

\* Payments are created, each new intent taking the place of intent i1 once
\* that one is gone, while another attempt polls intent i2 and its customer
\* moves it on; the payment search finds nothing.
NextCreate ==
  \/ CreateEndpoint({"i1"})
  \/ Start("r2", "i2")
  \/ \E out \in IntentOutcomes : IntentFetched("r2", out)
  \/ \E out \in {"throw", "ok"} : Searched("r2", out, <<>>)
  \/ Sweep({"r2"})
  \/ Cancel({"r2"})
  \/ Device({"i2"})

SpecCreate == Init /\ [][NextCreate]_vars

\* ------------------------------------------------------------- the claims
\* A handler that has answered, and the statuses the interface names.
Answered(p) == poll[p].pc = "done"

NamedStatuses == {"approved", "pending", "canceled"}

\* The handler p completes its intent fetch with an intent detail in this step.
FetchStep(p) ==
  /\ poll[p].pc = "fetchIntent"
  /\ poll'[p].pc # "fetchIntent"
  /\ poll'[p].dataIntent.amount > 0

\* The first place of the search result q.payments holding an approved or
\* authorized payment of the intent's amount in cents (0: none).
FirstMatch(q) ==
  LET hits == {k \in 1..Len(q.payments) :
                 /\ PaymentStatus(q.payments[k]) \in {"approved", "authorized"}
                 /\ AmountInCents(TransactionAmount(q.payments[k])) = q.dataIntent.amount}
  IN IF hits = {} THEN 0 ELSE CHOOSE k \in hits : \A j \in hits : k <= j

\* C1: no two polls answer approved through a cache hit with the same
\* paymentId, whatever notifications (duplicates on one or both channels
\* included) and polls interleave.
C1_ConsumedOnce ==
  \A p, q \in Pollers :
    (/\ p # q
     /\ Answered(p) /\ poll[p].branch = "cache"
     /\ Answered(q) /\ poll[q].branch = "cache")
    => poll[p].res.paymentId # poll[q].res.paymentId

\* C2: the cache check of a poll whose intent has amount a is one step: if a
\* record is there the poll takes it and the record is removed in the same
\* step, otherwise the poll has no hit; and a slot that is absent becomes
\* present again only by the put of a notification handler, so after one put
\* the record is returned once and later polls find it absent.
C2_TakeOnce ==
  [][/\ \A p \in Pollers :
          FetchStep(p) =>
            LET a == poll'[p].dataIntent.amount
            IN IF confirmedPayments[a] # NoRecord
               THEN /\ poll'[p].cached = confirmedPayments[a]
                    /\ poll'[p].branch = "cache"
                    /\ confirmedPayments'[a] = NoRecord
               ELSE /\ poll'[p].cached = NoRecord
                    /\ poll'[p].branch # "cache"
                    /\ confirmedPayments'[a] = NoRecord
     /\ \A a \in Cents :
          (confirmedPayments[a] = NoRecord /\ confirmedPayments'[a] # NoRecord)
          => \E c \in Channels : notif[c].pc = "fetching" /\ notif'[c].pc = "idle"
    ]_vars

\* One poll has taken the record of an amount, another poll of the same
\* amount has found the cache absent, and the record is gone.
C2_Witness ==
  \E p, q \in Pollers :
    /\ p # q
    /\ Answered(p) /\ poll[p].branch = "cache" /\ poll[p].res.status = "approved"
    /\ poll[q].pc \notin {"idle", "fetchIntent"}
    /\ poll[q].dataIntent.amount = poll[p].dataIntent.amount
    /\ poll[q].cached = NoRecord
    /\ confirmedPayments[poll[p].dataIntent.amount] = NoRecord

\* C3: an eviction pass removes exactly the records whose timestamp is more
\* than one hour before the pass; every other record stays, unchanged.
C3_EvictsOnlyExpired ==
  [][lastEviction' # lastEviction =>
       \A k \in Cents :
         confirmedPayments'[k] =
           IF /\ confirmedPayments[k] # NoRecord
              /\ now - confirmedPayments[k].timestamp > OneHourMs
           THEN NoRecord
           ELSE confirmedPayments[k]
    ]_vars

\* A pass has just run and has kept a record that is exactly one hour old.
C3_Witness ==
  /\ lastEviction = now
  /\ now > 0
  /\ \E k \in Cents :
       /\ confirmedPayments[k] # NoRecord
       /\ now - confirmedPayments[k].timestamp = OneHourMs

\* C4: when the poll finds a cache record for the intent's amount and a
\* payment id embedded in the intent detail, the record is removed in the
\* step that finds it and the poll answers approved with the cached
\* paymentId.
C4_CacheBeforeDirect ==
  /\ [][\A p \in Pollers :
          (/\ FetchStep(p)
           /\ confirmedPayments[poll'[p].dataIntent.amount] # NoRecord
           /\ poll'[p].dataIntent.payment # NoPayment)
          => /\ confirmedPayments'[poll'[p].dataIntent.amount] = NoRecord
             /\ poll'[p].cached = confirmedPayments[poll'[p].dataIntent.amount]
       ]_vars
  /\ [](\A p \in Pollers :
          (/\ Answered(p)
           /\ poll[p].cached # NoRecord
           /\ poll[p].dataIntent.payment # NoPayment)
          => poll[p].res = [status |-> "approved",
                            paymentId |-> poll[p].cached.paymentId])

\* A poll that found a cached payment and another payment embedded in the
\* intent has answered.
C4_Witness ==
  \E p \in Pollers :
    /\ Answered(p)
    /\ poll[p].cached # NoRecord
    /\ poll[p].dataIntent.payment # NoPayment
    /\ poll[p].dataIntent.payment # poll[p].cached.paymentId
    /\ poll[p].res.paymentId = poll[p].cached.paymentId

\* C5 as claimed: every poll answers with approved, pending or canceled, and
\* a failed intent fetch answers pending.
C5_AlwaysNamedStatus ==
  \A p \in Pollers :
    Answered(p) =>
      /\ poll[p].res.status \in NamedStatuses
      /\ poll[p].branch = "fetchFailed" => poll[p].res.status = "pending"

\* C5 as amended: a poll of a real intent id handled without an access token
\* answers 500; every other poll answers with approved, pending or canceled,
\* whatever gateway call fails, and pending when the intent fetch or the
\* payment search fails.
C5_NamedStatusWithToken ==
  \A p \in Pollers :
    Answered(p) =>
      /\ IF ~token /\ poll[p].id \notin MockIds
         THEN poll[p].res.status = "error"
         ELSE poll[p].res.status \in NamedStatuses
      /\ poll[p].branch \in {"fetchFailed", "searchFailed"}
           => poll[p].res.status = "pending"

\* A poll whose intent fetch failed has answered pending.
C5_Witness ==
  \E p \in Pollers :
    /\ Answered(p)
    /\ poll[p].branch = "fetchFailed"
    /\ poll[p].res.status = "pending"

\* C6: a poll that fetches an intent of amount A while the cache holds the
\* record of an approved or authorized payment of amount A answers approved
\* with that payment's id, whatever the state of the intent.
C6_NotificationFirst ==
  \A p \in Pollers :
    (poll[p].pc \notin {"idle", "fetchIntent"} /\ poll[p].cached # NoRecord)
    => /\ AmountInCents(poll[p].cached.amount) = poll[p].dataIntent.amount
       /\ poll[p].cached.status \in {"approved", "authorized"}
       /\ Answered(p) => poll[p].res = [status |-> "approved",
                                        paymentId |-> poll[p].cached.paymentId]

\* A poll of a canceled intent has answered approved with the id of the
\* payment a notification had cached.
C6_Witness ==
  \E p \in Pollers :
    /\ Answered(p)
    /\ poll[p].cached # NoRecord
    /\ poll[p].dataIntent.state = "CANCELED"
    /\ poll[p].res.status = "approved"
    /\ poll[p].res.paymentId = poll[p].cached.paymentId

\* C7: with no cache record for the intent's amount and no embedded payment
\* id, a FINISHED or PROCESSED intent is answered approved with no paymentId,
\* and the payment search is not asked.
C7_FinishedWithoutId ==
  \A p \in Pollers :
    (/\ Answered(p)
     /\ poll[p].cached = NoRecord
     /\ poll[p].dataIntent.payment = NoPayment
     /\ poll[p].dataIntent.state \in {"FINISHED", "PROCESSED"})
    => /\ poll[p].res = [status |-> "approved", paymentId |-> NoPayment]
       /\ ~poll[p].searched

\* Such a poll has answered for an intent whose amount is that of an approved
\* payment the gateway knows.
C7_Witness ==
  \E p \in Pollers :
    /\ Answered(p)
    /\ poll[p].cached = NoRecord
    /\ poll[p].dataIntent.payment = NoPayment
    /\ poll[p].dataIntent.state = "FINISHED"
    /\ \E q \in PaymentIds :
         /\ PaymentStatus(q) = "approved"
         /\ AmountInCents(TransactionAmount(q)) = poll[p].dataIntent.amount
    /\ poll[p].res = [status |-> "approved", paymentId |-> NoPayment]

\* C8: with no cache record, no embedded payment id and a state other than
\* FINISHED/PROCESSED, a search result that holds an approved or authorized
\* payment of the intent's amount in cents is answered approved with the id
\* of the first such payment of the result.
C8_SearchFirstMatch ==
  \A p \in Pollers :
    (/\ Answered(p)
     /\ poll[p].cached = NoRecord
     /\ poll[p].dataIntent.payment = NoPayment
     /\ poll[p].dataIntent.state \notin {"FINISHED", "PROCESSED"}
     /\ poll[p].searched
     /\ FirstMatch(poll[p]) # 0)
    => poll[p].res = [status |-> "approved",
                      paymentId |-> poll[p].payments[FirstMatch(poll[p])]]

\* A poll has answered with the first of two matching payments of the result.
C8_Witness ==
  \E p \in Pollers :
    /\ Answered(p)
    /\ poll[p].searched
    /\ Len(poll[p].payments) = 2
    /\ FirstMatch([poll[p] EXCEPT !.payments = Tail(@)]) # 0
    /\ FirstMatch(poll[p]) = 1
    /\ poll[p].res = [status |-> "approved", paymentId |-> poll[p].payments[1]]

\* The approval conditions a poll can have met: a cache record for the
\* intent's amount, an embedded payment id, the FINISHED or PROCESSED state,
\* or a matching payment in the search result.
ApprovalCondition(q) ==
  \/ q.cached # NoRecord
  \/ q.dataIntent.payment # NoPayment
  \/ q.dataIntent.state \in {"FINISHED", "PROCESSED"}
  \/ q.searched /\ FirstMatch(q) # 0

\* C9 as claimed: a poll answers approved only if an approval condition
\* held during it, and a CREATED or ON_DEVICE intent with none of them is
\* answered pending.
C9_ApprovedOnlyOnCondition ==
  \A p \in Pollers :
    Answered(p) =>
      /\ poll[p].res.status = "approved" => ApprovalCondition(poll[p])
      /\ (poll[p].dataIntent.state \in {"CREATED", "ON_DEVICE"}
          /\ ~ApprovalCondition(poll[p])) => poll[p].res.status = "pending"

\* C9 as amended: the same, for every poll but that of a mock id (an id
\* starting with mock_pay), which is answered approved at once.
C9_ApprovedOnConditionOrMock ==
  \A p \in Pollers :
    Answered(p) =>
      /\ poll[p].res.status = "approved"
           => (poll[p].id \in MockIds \/ ApprovalCondition(poll[p]))
      /\ (poll[p].dataIntent.state \in {"CREATED", "ON_DEVICE"}
          /\ ~ApprovalCondition(poll[p])) => poll[p].res.status = "pending"

\* A poll of an intent on the device has searched, found no match and
\* answered pending.
C9_Witness ==
  \E p \in Pollers :
    /\ Answered(p)
    /\ poll[p].dataIntent.state = "ON_DEVICE"
    /\ poll[p].searched
    /\ ~ApprovalCondition(poll[p])
    /\ poll[p].res.status = "pending"

\* C10: when no approval condition holds (the search has answered without a
\* match) and the intent is CANCELED or ERROR, the poll issues one delete of
\* the intent and answers canceled, whatever the outcome of that delete.
C10_CanceledSingleDelete ==
  \A p \in Pollers :
    (/\ Answered(p)
     /\ poll[p].dataIntent.state \in {"CANCELED", "ERROR"}
     /\ poll[p].searched
     /\ ~ApprovalCondition(poll[p]))
    => /\ poll[p].res = [status |-> "canceled", paymentId |-> NoPayment]
       /\ poll[p].deletes = 1

\* A poll of an intent in ERROR has answered canceled after one delete that
\* failed: the intent is still queued.
C10_Witness ==
  \E p \in Pollers :
    /\ Answered(p)
    /\ poll[p].dataIntent.state = "ERROR"
    /\ poll[p].res.status = "canceled"
    /\ poll[p].deletes = 1
    /\ intents[poll[p].id].present

\* C11: every request to either notification endpoint has been answered 200
\* when the first run of its handler ends, so that a payment lookup is in
\* flight only for a request already answered 200; and the step in which
\* the lookup answers (with any status, or failing) sends nothing more.
C11_AckBeforeLookup ==
  [][\A c \in Channels :
       /\ (notif[c].pc = "idle" /\ notif'[c] # notif[c]) => notif'[c].sent = 200
       /\ notif'[c].pc = "fetching" => notif'[c].sent = 200
       /\ notif[c].pc = "fetching" => notif'[c].sent = notif[c].sent]_vars

\* An IPN has been answered 200 and its lookup is in flight, and a webhook
\* was answered 200 and its lookup has ended without a write to the cache.
C11_Witness ==
  /\ notif["ipn"].pc = "fetching"
  /\ notif["ipn"].sent = 200
  /\ notif["webhook"].pc = "idle"
  /\ notif["webhook"].sent = 200
  /\ \A k \in Cents : confirmedPayments[k] = NoRecord

\* C12: a step of a notification handler changes the cache only when it is
\* the step after the lookup of a payment whose status is approved or
\* authorized, and then the cache differs from the one before in one slot
\* only, the one of the payment's amount in cents, which holds the same
\* record whichever the channel: {paymentId, amount, status, timestamp}.
\* A request of another topic or action, or without an id, changes nothing.
C12_WritesOnlyApproved ==
  [][\A c \in Channels :
       (notif'[c] # notif[c] /\ confirmedPayments' # confirmedPayments) =>
         /\ notif[c].pc = "fetching"
         /\ PaymentStatus(notif[c].id) \in {"approved", "authorized"}
         /\ confirmedPayments' =
              [confirmedPayments EXCEPT
                 ![(TransactionAmount(notif[c].id) + 5) \div 10] =
                    [paymentId |-> notif[c].id,
                     amount |-> TransactionAmount(notif[c].id),
                     status |-> PaymentStatus(notif[c].id),
                     timestamp |-> now]]]_vars

\* The IPN alone has run, and the authorized payment of 15.504 it looked up
\* is in the cache under 1550 cents.
C12_Witness ==
  /\ notif["webhook"].sent = 0
  /\ notif["ipn"].pc = "idle"
  /\ notif["ipn"].sent = 200
  /\ \A p \in Pollers : poll[p].pc = "idle"
  /\ confirmedPayments[1550] =
       [paymentId |-> "p2", amount |-> 15504, status |-> "authorized", timestamp |-> 0]

\* C13: a poll of an intent that was answered approved has, before the
\* answer, issued between one and three deletes of the intent, listed the
\* device queue, and issued a delete for every intent the listing answered.
C13_ApprovedAfterSweep ==
  \A p \in Pollers :
    (Answered(p) /\ ~IsMock(poll[p].id) /\ poll[p].res.status = "approved") =>
      /\ poll[p].deletes \in 1..3
      /\ poll[p].listed
      /\ poll[p].idx = Len(poll[p].events)

\* C14: a handler that was answered a non-empty listing of the device queue
\* has, when it answers, issued a delete for every intent of the listing,
\* whatever the outcomes of those deletes and whichever branch it is in.
C14_ClearReachesEveryIntent ==
  \A p \in Pollers :
    (Answered(p) /\ poll[p].events # <<>>) =>
      poll[p].idx = Len(poll[p].events)

C16_NotFoundIsSuccess ==
  /\ \A p \in Pollers :
       poll[p].delResp = "notfound" => poll[p].pc = "list"
  /\ (cancelReq.pc = "done" /\ cancelReq.delResp = "notfound") =>
       (cancelReq.res.code = 200 /\ cancelReq.res.success)
  /\ clearReq.cleared =
       Cardinality({k \in 1..Len(clearReq.answers) :
                      clearReq.answers[k] \in {"ok", "notfound"}})

\* Intent i1 deleted three times over: the cancel endpoint removed it and
\* answered success, the clear-queue endpoint was then answered 404 for it and
\* counted it, and the resolver's first attempt was answered 404 and ended
\* the retry loop.
C16_Witness ==
  /\ cancelReq.pc = "done" /\ cancelReq.id = "i1"
  /\ cancelReq.delResp = "ok" /\ cancelReq.res.success
  /\ clearReq.pc = "done"
  /\ clearReq.events = <<"i1", "i2">>
  /\ clearReq.answers = <<"notfound", "ok">>
  /\ clearReq.res = [code |-> 200, success |-> TRUE, cleared |-> 2]
  /\ poll["r1"].pc = "list" /\ poll["r1"].id = "i1"
  /\ poll["r1"].delResp = "notfound" /\ poll["r1"].deletes = 1

\* C17: a payment attempt issues at most 60 status requests, one after each
\* wait, and an attempt that ends with the timeout failure has made its 60
\* attempts, has saved no order, and did not end on a canceled answer (which
\* has an outcome of its own).
C17_TimeoutAfterSixty ==
  /\ client.requests <= MaxAttempts
  /\ client.requests \in {client.attempts, client.attempts + 1}
  /\ client.failure = "timeout" =>
       /\ client.attempts = MaxAttempts
       /\ client.orders = 0
       /\ client.lastStatus # "canceled"

\* C18: a payment attempt that failed while polling has used up its 60
\* attempts: no single failed status request ends it.
C18_OnlyBudgetFails ==
  client.failure \in {"request", "timeout"} => client.attempts = MaxAttempts

\* C19: once a status request was answered canceled the page polls no more:
\* it is neither waiting for the next request nor has one in flight, it does
\* not report a timeout, and no order is saved.
C19_CanceledEndsPolling ==
  client.lastStatus = "canceled" =>
    /\ client.pc \notin {"waiting", "polling"}
    /\ client.failure # "timeout"
    /\ client.orders = 0

\* C20: once a cancel request for the payment being polled has arrived at
\* the server, the page issues no further status request for it (the one in
\* flight may complete).
C20_CancelStopsPolling ==
  [][(cancelReq.pc # "idle" /\ cancelReq.id = client.id) =>
       client'.requests <= client.requests]_vars

C23_PaidLeadsToApproved ==
  (token /\ intents["i1"].state \in {"FINISHED", "PROCESSED"}) ~>
    (poll["r1"].pc = "done" /\ poll["r1"].id = "i1"
       /\ poll["r1"].res.status = "approved")

\* An intent as the passive cleanup was answered it, that the terminal must
\* not be left holding: it is in a terminal state, or it is still CREATED or
\* ON_DEVICE and the page that polled it has run out of attempts.
Held(ev) ==
  \/ ev.state \in {"FINISHED", "PROCESSED", "CANCELED", "ERROR"}
  \/ /\ ev.state \in {"CREATED", "ON_DEVICE"}
     /\ client.id = ev.id /\ client.failure = "timeout"

\* C24: the sweeps take every held intent off the device: a pass of the
\* passive cleanup that ends without issuing a single delete was not
\* answered any intent that is terminal or abandoned.
C24_PassLeavesNothingHeld ==
  [][(cleanup.pc = "list" /\ cleanup'.pc = "idle" /\ cleanup'.events # <<>>) =>
       \A k \in 1..Len(cleanup'.events) : ~Held(cleanup'.events[k])]_vars

\* C25: the cache holds one record per amount, that of the latest put: a put
\* for payment P of amount A makes P's record the record of A, whatever record
\* was there, and touches no other amount; a record changes to another record
\* only by a put; a take returns the record the cache holds at that moment,
\* and the cache-hit answer carries the paymentId of the record taken. So of
\* two payments of one amount put before a poll, the poll gets the later one
\* and no poll gets the earlier one.
C25_LaterPutReplaces ==
  [][/\ \A c \in Channels :
          (/\ notif[c].pc = "fetching" /\ notif'[c].pc = "idle"
           /\ confirmedPayments' # confirmedPayments) =>
            LET k == AmountInCents(TransactionAmount(notif[c].id))
            IN /\ confirmedPayments'[k].paymentId = notif[c].id
               /\ \A j \in Cents \ {k} : confirmedPayments'[j] = confirmedPayments[j]
     /\ \A k \in Cents :
          (confirmedPayments'[k] # confirmedPayments[k] /\ confirmedPayments'[k] # NoRecord)
          => \E c \in Channels :
               /\ notif[c].pc = "fetching" /\ notif'[c].pc = "idle"
               /\ IsApproved(PaymentStatus(notif[c].id))
               /\ AmountInCents(TransactionAmount(notif[c].id)) = k
     /\ \A p \in Pollers :
          (FetchStep(p) /\ confirmedPayments[poll'[p].dataIntent.amount] # NoRecord)
          => poll'[p].cached = confirmedPayments[poll'[p].dataIntent.amount]
     /\ \A p \in Pollers :
          (poll[p].pc = "hitDelete" /\ poll'[p].pc = "done")
          => poll'[p].res.paymentId = poll[p].cached.paymentId
    ]_vars

\* Both channels have handled a notification, and a poll of the amount that
\* payments p1 and p2 share has taken the record of p2 and answered with it,
\* the record being gone from the cache.
C25_Witness ==
  /\ \A c \in Channels : notif[c].pc = "idle" /\ notif[c].sent = 200
  /\ \E p \in Pollers :
       /\ Answered(p) /\ poll[p].branch = "cache"
       /\ poll[p].cached.paymentId = "p2"
       /\ poll[p].res = [status |-> "approved", paymentId |-> "p2"]
       /\ confirmedPayments[poll[p].dataIntent.amount] = NoRecord

\* C26: no payment approves two intents: two polls of different intents that
\* have answered approved with a paymentId have answered with different
\* paymentIds, whatever strategy (cache hit, embedded id, amount search) each
\* answer came from.
C26_OnePaymentOneIntent ==
  \A p, q \in Pollers :
    (/\ Answered(p) /\ Answered(q)
     /\ poll[p].id # poll[q].id
     /\ poll[p].res.status = "approved" /\ poll[q].res.status = "approved"
     /\ poll[p].res.paymentId # NoPayment)
    => poll[p].res.paymentId # poll[q].res.paymentId

\* C27: a step of the resolver changes the cache only when it is the cache
\* check finding a record, and then by removing that one record; every other
\* step of a poll, through whatever path the poll ends (failed intent fetch,
\* no positive amount, embedded id, FINISHED/PROCESSED, amount search,
\* canceled, pending), leaves the cache as it was.
C27_OnlyTheHitChangesCache ==
  [][\A p \in Pollers :
       poll'[p] # poll[p] =>
         IF poll[p].pc = "fetchIntent" /\ poll'[p].branch = "cache"
         THEN LET a == poll'[p].dataIntent.amount
              IN /\ confirmedPayments[a] # NoRecord
                 /\ confirmedPayments' = [confirmedPayments EXCEPT ![a] = NoRecord]
         ELSE confirmedPayments' = confirmedPayments
    ]_vars

\* A poll has answered approved through the amount search with a payment
\* whose record, written by a notification during the poll, is still in the
\* cache for a later poll of that amount.
C27_Witness ==
  \E p \in Pollers :
    /\ Answered(p) /\ poll[p].branch = "search"
    /\ poll[p].cached = NoRecord
    /\ poll[p].res.status = "approved"
    /\ confirmedPayments[poll[p].dataIntent.amount] # NoRecord
    /\ confirmedPayments[poll[p].dataIntent.amount].paymentId = poll[p].res.paymentId

\* C28 as claimed: with the eviction passes one hour apart (none overdue),
\* every record present in the cache is less than two hours old.
C28_YoungerThanTwoHours ==
  now <= lastEviction + OneHourMs =>
    \A k \in Cents :
      confirmedPayments[k] # NoRecord =>
        now - confirmedPayments[k].timestamp < 2 * OneHourMs

\* C28 as amended: every record present in the cache was written no earlier
\* than one hour before the latest eviction pass (so it is at most two hours
\* old when the next pass is due, and exactly two hours old then if it was
\* written in the millisecond of a pass); and the cache check applies no age
\* check: a record that is present is taken by the poll of its amount,
\* however old it is.
C28_WithinOneHourOfLastPass ==
  /\ [](\A k \in Cents :
          confirmedPayments[k] # NoRecord =>
            confirmedPayments[k].timestamp >= lastEviction - OneHourMs)
  /\ [][\A p \in Pollers :
          (FetchStep(p) /\ confirmedPayments[poll'[p].dataIntent.amount] # NoRecord)
          => /\ poll'[p].branch = "cache"
             /\ poll'[p].cached = confirmedPayments[poll'[p].dataIntent.amount]
             /\ poll'[p].pc = "hitDelete"
       ]_vars

\* A pass has run and has kept a record that is now two hours old, the next
\* pass being due, while a poll of the record's amount awaits its intent.
C28_Witness ==
  /\ lastEviction > 0
  /\ now = lastEviction + OneHourMs
  /\ \E p \in Pollers :
       /\ poll[p].pc = "fetchIntent"
       /\ confirmedPayments[intents[poll[p].id].amount] # NoRecord
       /\ now - confirmedPayments[intents[poll[p].id].amount].timestamp = 2 * OneHourMs

\* C29: POST /api/payment/create lists the device queue and issues a delete
\* for every listed intent whatever its state (unless a call of the cleanup
\* throws, which ends the cleanup silently), and only then issues the create
\* call: an intent appears on the device only as the create call ends, the
\* cleanup being over; and while the cleanup runs nothing is answered and
\* every outcome of it leads on to the create call.
C29_CleansThenCreates ==
  [][/\ (createReq.pc # "create" /\ createReq'.pc = "create") =>
          /\ createReq.pc \in {"list", "delete"}
          /\ ~createReq'.caught =>
               createReq'.issued =
                 {createReq'.events[k].id : k \in 1..Len(createReq'.events)}
     /\ (\E i \in IntentIds : ~intents[i].present /\ intents'[i].present) =>
          /\ createReq.pc = "create"
          /\ createReq'.pc = "done"
          /\ createReq'.res.status = "open"
     /\ createReq.pc \in {"list", "delete"} =>
          /\ createReq'.pc \in {"list", "delete", "create"}
          /\ createReq'.res = NoCreateAnswer
    ]_vars

\* A create request has listed intent i2, still CREATED or ON_DEVICE and
\* being polled by its client, has issued a delete for every listed intent,
\* the last of which threw, and has created the new intent all the same.
C29_Witness ==
  /\ createReq.pc = "done"
  /\ createReq.caught
  /\ createReq.issued = {"i1", "i2"}
  /\ \E k \in 1..Len(createReq.events) :
       /\ createReq.events[k].id = "i2"
       /\ createReq.events[k].state \in {"CREATED", "ON_DEVICE"}
  /\ createReq.res = [code |-> 200, id |-> "i1", status |-> "open"]
  /\ poll["r2"].id = "i2" /\ poll["r2"].pc \notin {"idle", "done"}

\* C30: approval goes before cancellation: a poll that fetched a CANCELED or
\* ERROR intent answers approved when the cache held a record for the
\* intent's amount (with the record's paymentId) or when the search result
\* holds an approved or authorized payment of that amount (with the id of
\* the first one), and answers pending when the payment search failed; in
\* none of these cases is the answer canceled, and no poll that answers
\* canceled had a record or a match.
C30_ApprovalBeforeCancellation ==
  \A p \in Pollers :
    (Answered(p) /\ poll[p].dataIntent.state \in {"CANCELED", "ERROR"}) =>
      /\ poll[p].cached # NoRecord =>
           poll[p].res = [status |-> "approved", paymentId |-> poll[p].cached.paymentId]
      /\ (poll[p].cached = NoRecord /\ poll[p].searched /\ FirstMatch(poll[p]) # 0) =>
           /\ poll[p].res.status = "approved"
           /\ poll[p].res.paymentId = poll[p].payments[FirstMatch(poll[p])]
      /\ poll[p].branch = "searchFailed" => poll[p].res.status = "pending"
      /\ poll[p].res.status = "canceled" =>
           /\ poll[p].cached = NoRecord
           /\ poll[p].searched /\ FirstMatch(poll[p]) = 0

\* A poll of an intent in the ERROR state, with nothing in the cache, has
\* found a payment of the intent's amount in the search result and has
\* answered approved.
C30_Witness ==
  \E p \in Pollers :
    /\ Answered(p)
    /\ poll[p].dataIntent.state = "ERROR"
    /\ poll[p].cached = NoRecord
    /\ poll[p].searched /\ FirstMatch(poll[p]) # 0
    /\ poll[p].res.status = "approved"
    /\ poll[p].res.paymentId = poll[p].payments[FirstMatch(poll[p])]

====
